---- MODULE Spec2Model ----
(***************************************************************************)
(* Model of the promise / async-await demonstration program               *)
(* (fetchUserData, showUserDetails, runParallelTasks, main) running on a   *)
(* single-threaded event loop: one synchronous call stack (pc), a FIFO     *)
(* queue of promise reaction jobs (microtasks), one-shot timers, and a     *)
(* logical millisecond clock (now) that only advances while the loop is    *)
(* idle.                                                                   *)
(***************************************************************************)
EXTENDS Integers, Sequences, FiniteSets, TLC

VARIABLES
    now,          \* logical clock, in ms (Date.now())
    pc,           \* position of the synchronous code on the call stack, "idle" when empty
    microtasks,   \* FIFO queue of promise reaction jobs
    fetches,      \* one record per fetchUserData call, in call order
    trace,        \* the console lines written so far
    testDouble,   \* FALSE: `const success = true` as written; TRUE: success is injectable
    sudTask,      \* showUserDetails: "notStarted" | "running" | "suspended" | "done"
    sudF,         \* index in fetches of the fetch showUserDetails awaits (0: none yet)
    sudP,         \* state of the promise showUserDetails() returned
    rptTask,      \* runParallelTasks: "notStarted" | "running" | "suspended" | "done"
    rptF,         \* indexes in fetches of the array elements given to Promise.all
    rptP,         \* state of the promise runParallelTasks() returned
    allP,         \* the Promise.all aggregate
    startTime,    \* runParallelTasks' startTime
    results,      \* runParallelTasks' results, once the await returned
    mainWait,     \* the promise main is suspended on: "none" | "sud" | "rpt"
    mainP,        \* state of the promise main() returned
    settledOrder, \* indexes of fetches in the order their timer callbacks ran
    drvK,         \* sequential caller: number of awaited fetches that completed
    drvStart,     \* sequential caller: clock at the first initiation
    drvEnd        \* sequential caller: clock at the latest completion

vars == << now, pc, microtasks, fetches, trace, testDouble, sudTask, sudF, sudP,
           rptTask, rptF, rptP, allP, startTime, results, mainWait, mainP,
           settledOrder, drvK, drvStart, drvEnd >>

----------------------------------------------------------------------------
(* Program constants *)

\* setTimeout(..., 1500)
DELAY == 1500

\* the three elements of the array given to Promise.all
NumParallel == 3

(* Bounds of the sequential caller *)

\* number of fetchUserData calls awaited one after the other
SeqCalls == 3

\* identifiers the sequential caller may pass: 1..MaxId
MaxId == 2

Ids == 1..MaxId

----------------------------------------------------------------------------
(* Values *)

NoJob == [kind |-> "none", f |-> 0]

Job(kind, f) == [kind |-> kind, f |-> f]

\* a console line: its kind, a number (fetch id, elapsed ms) and its text items
Line(kind, num, text) == [kind |-> kind, num |-> num, text |-> text]

ErrorMessage == "user not found"

\* faulty variant of Record: the id is hard-coded
RecordIdOne(id) == [id |-> 1, name |-> "Bruce Wayne"]

\* { id: id, name: "Bruce Wayne" }
Record(id) == [id |-> id, name |-> "Bruce Wayne"]

\* helpers of the faulty variants of Deadline
Max(S) == CHOOSE x \in S : \A y \in S : y <= x

PendingDeadlines(fs) == { fs[i].deadline : i \in { j \in DOMAIN fs : fs[j].armed } }

\* faulty variant of Deadline: a timer starts only after the timers already pending
DeadlineSerial(t, fs) == Max(PendingDeadlines(fs) \cup {t}) + DELAY

\* faulty variant of Deadline: the timer is due one ms early
DeadlineShort(t, fs) == t + DELAY - 1

\* setTimeout(cb, 1500) called at time t: cb is due at t + 1500
Deadline(t, fs) == t + DELAY

\* new Promise(...) of fetchUserData(id) called at time t: pending, timer armed
NewFetch(id, t, fs) ==
    [ id |-> id, deadline |-> Deadline(t, fs), armed |-> TRUE, state |-> "pending",
      value |-> << >>, reason |-> "", waiter |-> NoJob, settles |-> 0 ]

\* the values `success` can take in the timer callback
SuccessValues == IF testDouble THEN BOOLEAN ELSE {TRUE}

\* faulty variant of Settle: the failure branch forgets to call reject
SettleNoReject(fr, ok) ==
    IF fr.state # "pending" \/ ~ok THEN fr
    ELSE [fr EXCEPT !.state = "fulfilled", !.value = << Record(fr.id) >>]

\* the body of the timer callback: resolve(...) or reject(...); a settled
\* promise ignores both
Settle(fr, ok) ==
    IF fr.state # "pending" THEN fr
    ELSE IF ok THEN [fr EXCEPT !.state = "fulfilled", !.value = << Record(fr.id) >>]
    ELSE [fr EXCEPT !.state = "rejected", !.reason = ErrorMessage]

\* p.then(job): the job is queued at once when p is already settled
Register(fs, f, job) == [fs EXCEPT ![f].waiter = job]

RegisterJobs(fs, f, job) == IF fs[f].state = "pending" THEN << >> ELSE << job >>

----------------------------------------------------------------------------
(* The event loop: timers and the clock *)

Idle == pc = "idle" /\ microtasks = << >>

Armed == { f \in DOMAIN fetches : fetches[f].armed }

\* the clock advances by one ms while nothing is runnable and no timer is due
Tick ==
    /\ Idle
    /\ Armed # {}
    /\ \A f \in Armed : fetches[f].deadline > now
    /\ now' = now + 1
    /\ UNCHANGED << pc, microtasks, fetches, trace, testDouble, sudTask, sudF, sudP,
                    rptTask, rptF, rptP, allP, startTime, results, mainWait, mainP,
                    settledOrder, drvK, drvStart, drvEnd >>

\* the timer of fetch f fires: the callback settles the promise and the
\* reaction of whoever awaits it is queued
TimerFire(f) ==
    /\ Idle
    /\ f \in Armed
    /\ fetches[f].deadline <= now
    /\ \E ok \in SuccessValues :
          LET fr == [ Settle(fetches[f], ok) EXCEPT !.armed = FALSE,
                                                    !.settles = @ + 1 ]
          IN  /\ fetches' = [fetches EXCEPT ![f] = fr]
              /\ microtasks' = IF fr.state # "pending" /\ fr.waiter # NoJob
                               THEN Append(microtasks, fr.waiter)
                               ELSE microtasks
    /\ settledOrder' = Append(settledOrder, f)
    /\ UNCHANGED << now, pc, trace, testDouble, sudTask, sudF, sudP, rptTask, rptF,
                    rptP, allP, startTime, results, mainWait, mainP, drvK, drvStart,
                    drvEnd >>

----------------------------------------------------------------------------
(* showUserDetails and main's first await *)

progVars == << sudTask, sudF, sudP, rptTask, rptF, rptP, allP, startTime, results,
               mainWait, mainP >>

drvVars == << drvK, drvStart, drvEnd >>

\* faulty variant of MainAwaitsSud: showUserDetails() is called without await
MainSkipsAwait == FALSE

\* main: `await showUserDetails()` suspends main until that promise settles
MainAwaitsSud == TRUE

\* faulty variant of SudOutcome: the catch block rethrows
SudRethrow(st) == IF st = "rejected" THEN "rejected" ELSE "fulfilled"

\* how the promise of showUserDetails() settles, given the state of the fetch
\* it awaited: the try body ends normally, and so does the catch block
SudOutcome(st) == "fulfilled"

\* faulty variant of SudLines: the end marker is written as in a finally block
SudLinesFinally(fr) ==
    IF fr.state = "fulfilled"
    THEN << Line("seqOk", 0, << fr.value[1].name >>), Line("seqEnd", 0, << >>) >>
    ELSE << Line("seqErr", 0, << fr.reason >>), Line("seqEnd", 0, << >>) >>

\* what showUserDetails writes once its await returns or throws
SudLines(fr) ==
    IF fr.state = "fulfilled"
    THEN << Line("seqOk", 0, << fr.value[1].name >>), Line("seqEnd", 0, << >>) >>
    ELSE << Line("seqErr", 0, << fr.reason >>) >>

\* main() calls showUserDetails(), which enters its try block
SudStart ==
    /\ pc = "main"
    /\ trace' = Append(trace, Line("seqStart", 0, << >>))
    /\ sudTask' = "running"
    /\ sudP' = "pending"
    /\ mainP' = "pending"
    /\ pc' = "sud_fetch"
    /\ UNCHANGED << now, microtasks, fetches, testDouble, sudF, rptTask, rptF, rptP,
                    allP, startTime, results, mainWait, settledOrder, drvVars >>

\* showUserDetails evaluates fetchUserData(1)
SudFetch ==
    /\ pc = "sud_fetch"
    /\ trace' = Append(trace, Line("fetchStart", 1, << >>))
    /\ fetches' = Append(fetches, NewFetch(1, now, fetches))
    /\ sudF' = Len(fetches) + 1
    /\ pc' = "sud_await"
    /\ UNCHANGED << now, microtasks, testDouble, sudTask, sudP, rptTask, rptF, rptP,
                    allP, startTime, results, mainWait, mainP, settledOrder, drvVars >>

\* showUserDetails suspends on the fetch; control returns to main, which
\* awaits the promise of showUserDetails()
SudAwait ==
    /\ pc = "sud_await"
    /\ fetches' = Register(fetches, sudF, Job("sud", sudF))
    /\ microtasks' = microtasks \o RegisterJobs(fetches, sudF, Job("sud", sudF))
    /\ sudTask' = "suspended"
    /\ IF MainAwaitsSud
       THEN mainWait' = "sud" /\ pc' = "idle"
       ELSE mainWait' = "none" /\ pc' = "rpt_start"
    /\ UNCHANGED << now, trace, testDouble, sudF, sudP, rptTask, rptF, rptP, allP,
                    startTime, results, mainP, settledOrder, drvVars >>

\* showUserDetails resumes: the await returns the record or throws into catch
ResumeSud ==
    /\ pc = "idle"
    /\ microtasks # << >>
    /\ Head(microtasks).kind = "sud"
    /\ trace' = trace \o SudLines(fetches[sudF])
    /\ sudTask' = "done"
    /\ sudP' = SudOutcome(fetches[sudF].state)
    /\ microtasks' = Tail(microtasks) \o
                       (IF mainWait = "sud" THEN << Job("main1", 0) >> ELSE << >>)
    /\ UNCHANGED << now, pc, fetches, testDouble, sudF, rptTask, rptF, rptP, allP,
                    startTime, results, mainWait, mainP, settledOrder, drvVars >>

\* main resumes after `await showUserDetails()`: it calls runParallelTasks(),
\* or, main having no try block, rejects when the awaited promise rejected
ResumeMain ==
    /\ pc = "idle"
    /\ microtasks # << >>
    /\ Head(microtasks).kind = "main1"
    /\ microtasks' = Tail(microtasks)
    /\ mainWait' = "none"
    /\ IF sudP = "fulfilled"
       THEN pc' = "rpt_start" /\ mainP' = mainP
       ELSE pc' = "idle" /\ mainP' = "rejected"
    /\ UNCHANGED << now, fetches, trace, testDouble, sudTask, sudF, sudP, rptTask,
                    rptF, rptP, allP, startTime, results, settledOrder, drvVars >>

----------------------------------------------------------------------------
(* runParallelTasks and Promise.all *)

NoAll == [state |-> "none", values |-> << >>, remaining |-> 0, reason |-> ""]

\* faulty variant of RptSuspendsAfter: each element is awaited on its own
RptSuspendsAfterEach(i) == TRUE

\* the array literal evaluates its three calls before Promise.all and the
\* await: runParallelTasks suspends only after the last element
RptSuspendsAfter(i) == i = NumParallel

\* faulty variant of AllStore: values are kept in completion order
AllStoreInCompletionOrder(values, i, v) ==
    LET k == Cardinality({ j \in DOMAIN values : values[j] # << >> }) + 1
    IN  [values EXCEPT ![k] = << v >>]

\* Promise.all keeps the value of element i at index i
AllStore(values, i, v) == [values EXCEPT ![i] = << v >>]

\* Promise.all, element i fulfilled with v
AllFulfilElement(a, i, v) ==
    [a EXCEPT !.values = AllStore(a.values, i, v),
              !.remaining = a.remaining - 1,
              !.state = IF a.remaining - 1 = 0 /\ a.state = "pending"
                        THEN "fulfilled" ELSE a.state]

\* faulty variant of AllOnReject: a rejection counts as a completed element
AllSettledOnReject(a, reason) ==
    [a EXCEPT !.remaining = a.remaining - 1,
              !.state = IF a.remaining - 1 = 0 /\ a.state = "pending"
                        THEN "fulfilled" ELSE a.state]

\* Promise.all, an element rejected: the aggregate rejects with that reason,
\* unless it is settled already
AllOnReject(a, reason) ==
    IF a.state = "pending" THEN [a EXCEPT !.state = "rejected", !.reason = reason]
    ELSE a

NameOf(slot) == IF slot = << >> THEN "undefined" ELSE slot[1].name

\* results.map(r => r.name)
Names(rs) == [i \in DOMAIN rs |-> NameOf(rs[i])]

\* runParallelTasks starts: first log line and startTime = Date.now()
RptStart ==
    /\ pc = "rpt_start"
    /\ trace' = Append(trace, Line("parStart", 0, << >>))
    /\ startTime' = now
    /\ rptTask' = "running"
    /\ rptP' = "pending"
    /\ pc' = "rpt_fetch"
    /\ UNCHANGED << now, microtasks, fetches, testDouble, sudTask, sudF, sudP, rptF,
                    allP, results, mainWait, mainP, settledOrder, drvVars >>

\* runParallelTasks evaluates the next element of the array: fetchUserData(i)
RptFetch ==
    /\ pc = "rpt_fetch"
    /\ LET i == Len(rptF) + 1
       IN  /\ trace' = Append(trace, Line("fetchStart", i, << >>))
           /\ fetches' = Append(fetches, NewFetch(i, now, fetches))
           /\ rptF' = Append(rptF, Len(fetches) + 1)
           /\ pc' = IF RptSuspendsAfter(i) THEN "rpt_await" ELSE "rpt_fetch"
    /\ UNCHANGED << now, microtasks, testDouble, sudTask, sudF, sudP, rptTask, rptP,
                    allP, startTime, results, mainWait, mainP, settledOrder, drvVars >>

\* Promise.all(array) subscribes to every element; runParallelTasks suspends
\* on the aggregate and main on the promise of runParallelTasks()
RptAwait ==
    /\ pc = "rpt_await"
    /\ fetches' = [f \in DOMAIN fetches |->
                     IF \E i \in DOMAIN rptF : rptF[i] = f
                     THEN [fetches[f] EXCEPT !.waiter =
                             Job("all", CHOOSE i \in DOMAIN rptF : rptF[i] = f)]
                     ELSE fetches[f]]
    /\ allP' = [state |-> "pending", values |-> [i \in DOMAIN rptF |-> << >>],
                remaining |-> Len(rptF), reason |-> ""]
    /\ rptTask' = "suspended"
    /\ mainWait' = "rpt"
    /\ pc' = "idle"
    /\ UNCHANGED << now, microtasks, trace, testDouble, sudTask, sudF, sudP, rptF,
                    rptP, startTime, results, mainP, settledOrder, drvVars >>

\* the reaction Promise.all attached to element i runs
AllElement ==
    /\ pc = "idle"
    /\ microtasks # << >>
    /\ Head(microtasks).kind = "all"
    /\ LET i  == Head(microtasks).f
           fr == fetches[rptF[i]]
           a  == IF fr.state = "fulfilled" THEN AllFulfilElement(allP, i, fr.value[1])
                 ELSE AllOnReject(allP, fr.reason)
       IN  /\ allP' = a
           /\ microtasks' = Tail(microtasks) \o
                 (IF allP.state = "pending" /\ a.state # "pending"
                  THEN << Job("rpt", 0) >> ELSE << >>)
    /\ UNCHANGED << now, pc, fetches, trace, testDouble, sudTask, sudF, sudP, rptTask,
                    rptF, rptP, startTime, results, mainWait, mainP, settledOrder,
                    drvVars >>

\* runParallelTasks resumes: the await returns the array or throws into catch
ResumeRpt ==
    /\ pc = "idle"
    /\ microtasks # << >>
    /\ Head(microtasks).kind = "rpt"
    /\ IF allP.state = "fulfilled"
       THEN /\ results' = allP.values
            /\ trace' = trace \o << Line("allDone", 0, Names(allP.values)),
                                    Line("elapsed", now - startTime, << >>) >>
       ELSE /\ results' = results
            /\ trace' = Append(trace, Line("parErr", 0, << allP.reason >>))
    /\ rptTask' = "done"
    /\ rptP' = "fulfilled"
    /\ microtasks' = Tail(microtasks) \o
                       (IF mainWait = "rpt" THEN << Job("main2", 0) >> ELSE << >>)
    /\ UNCHANGED << now, pc, fetches, testDouble, sudTask, sudF, sudP, rptF, allP,
                    startTime, mainWait, mainP, settledOrder, drvVars >>

\* main resumes after `await runParallelTasks()` and returns
ResumeMainEnd ==
    /\ pc = "idle"
    /\ microtasks # << >>
    /\ Head(microtasks).kind = "main2"
    /\ microtasks' = Tail(microtasks)
    /\ mainWait' = "none"
    /\ mainP' = IF rptP = "fulfilled" THEN "fulfilled" ELSE "rejected"
    /\ UNCHANGED << now, pc, fetches, trace, testDouble, sudTask, sudF, sudP, rptTask,
                    rptF, rptP, allP, startTime, results, settledOrder, drvVars >>

----------------------------------------------------------------------------
(* A caller that awaits fetchUserData SeqCalls times, one after the other *)

\* the caller evaluates fetchUserData(id)
DrvCall ==
    /\ pc = "drv_call"
    /\ \E id \in Ids :
          /\ trace' = Append(trace, Line("fetchStart", id, << >>))
          /\ fetches' = Append(fetches, NewFetch(id, now, fetches))
    /\ drvStart' = IF fetches = << >> THEN now ELSE drvStart
    /\ pc' = "drv_await"
    /\ UNCHANGED << now, microtasks, testDouble, progVars, settledOrder, drvK, drvEnd >>

\* the caller suspends on the fetch it just initiated
DrvAwait ==
    /\ pc = "drv_await"
    /\ fetches' = Register(fetches, Len(fetches), Job("drv", Len(fetches)))
    /\ microtasks' = microtasks \o
                       RegisterJobs(fetches, Len(fetches), Job("drv", Len(fetches)))
    /\ pc' = "idle"
    /\ UNCHANGED << now, trace, testDouble, progVars, settledOrder, drvVars >>

\* the caller resumes with the record and goes on to the next call, if any
ResumeDrv ==
    /\ pc = "idle"
    /\ microtasks # << >>
    /\ Head(microtasks).kind = "drv"
    /\ microtasks' = Tail(microtasks)
    /\ trace' = Append(trace, Line("seqOk", 0, Names(<< fetches[Head(microtasks).f].value >>)))
    /\ drvK' = drvK + 1
    /\ drvEnd' = now
    /\ pc' = IF drvK + 1 < SeqCalls THEN "drv_call" ELSE "idle"
    /\ UNCHANGED << now, fetches, testDouble, progVars, settledOrder, drvStart >>

----------------------------------------------------------------------------
(* Specifications *)

InitCommon ==
    /\ now = 0
    /\ microtasks = << >>
    /\ fetches = << >>
    /\ trace = << >>
    /\ sudTask = "notStarted"
    /\ sudF = 0
    /\ sudP = "none"
    /\ rptTask = "notStarted"
    /\ rptF = << >>
    /\ rptP = "none"
    /\ allP = NoAll
    /\ startTime = 0
    /\ results = << >>
    /\ mainWait = "none"
    /\ mainP = "none"
    /\ settledOrder = << >>
    /\ drvK = 0
    /\ drvStart = 0
    /\ drvEnd = 0

\* the program as written: main() is called, success is the constant true
Init == InitCommon /\ pc = "main" /\ testDouble = FALSE

\* the program with the outcome of each fetch injected
InitFault == InitCommon /\ pc = "main" /\ testDouble = TRUE

\* the sequential caller in place of main
InitSeq == InitCommon /\ pc = "drv_call" /\ testDouble = FALSE

Next ==
    \/ SudStart
    \/ SudFetch
    \/ SudAwait
    \/ ResumeSud
    \/ ResumeMain
    \/ RptStart
    \/ RptFetch
    \/ RptAwait
    \/ AllElement
    \/ ResumeRpt
    \/ ResumeMainEnd
    \/ Tick
    \/ \E f \in DOMAIN fetches : TimerFire(f)

NextSeq ==
    \/ DrvCall
    \/ DrvAwait
    \/ ResumeDrv
    \/ Tick
    \/ \E f \in DOMAIN fetches : TimerFire(f)

Spec == Init /\ [][Next]_vars

SpecFault == InitFault /\ [][Next]_vars

SpecSeq == InitSeq /\ [][NextSeq]_vars

\* the event loop never stops while a job or a timer is runnable
FairSpecFault == InitFault /\ [][Next]_vars /\ WF_vars(Next)

----------------------------------------------------------------------------
(* Properties *)

HasLine(k) == \E i \in DOMAIN trace : trace[i].kind = k

CountLines(k) == Cardinality({ i \in DOMAIN trace : trace[i].kind = k })

IsPrefix(s, t) == Len(s) <= Len(t) /\ \A i \in 1..Len(s) : s[i] = t[i]

\* the kind of each line, with the fetch id of the start notices
Tags(tr) ==
    [i \in DOMAIN tr |->
        << tr[i].kind, IF tr[i].kind = "fetchStart" THEN tr[i].num ELSE 0 >>]

Settled(f) == fetches[f].state \in {"fulfilled", "rejected"}

AnyParallelRejected == \E i \in DOMAIN rptF : fetches[rptF[i]].state = "rejected"

\* C1: every fetch that fulfilled did so with a record whose id is the id the
\* call was given, and the records runParallelTasks gathered carry the ids
\* 1, 2 and 3 in that order.
FetchIdEqualsInput ==
    /\ \A f \in DOMAIN fetches :
          fetches[f].state = "fulfilled" =>
             /\ Len(fetches[f].value) = 1
             /\ fetches[f].value[1].id = fetches[f].id
    /\ results # << >> =>
          /\ Len(results) = NumParallel
          /\ \A i \in DOMAIN results : results[i][1].id = i

FetchIdWitness ==
    /\ results # << >>
    /\ \A i \in DOMAIN results : results[i][1].id = i

\* C2: whether the awaited fetch fulfills or rejects, the promise of
\* showUserDetails() never rejects and neither does main's; the call
\* completes, and main goes on to start runParallelTasks.
SudNeverRaises ==
    /\ [](sudP # "rejected" /\ mainP # "rejected")
    /\ <>(sudP = "fulfilled")
    /\ <>(rptTask # "notStarted")

SudRecoveredWitness ==
    /\ sudF # 0
    /\ fetches[sudF].state = "rejected"
    /\ sudP = "fulfilled"
    /\ rptTask # "notStarted"

\* C3: once the list of names is reported, results[i] is the record of the
\* i-th initiated fetch (ids 1, 2, 3) and the reported list holds their names
\* in that order, whatever the order in which the timers fired.
NamesInInitiationOrder ==
    HasLine("allDone") =>
       /\ Len(results) = NumParallel
       /\ \A i \in DOMAIN results :
             /\ results[i] = fetches[rptF[i]].value
             /\ fetches[rptF[i]].id = i
       /\ \A k \in DOMAIN trace :
             trace[k].kind = "allDone" =>
                trace[k].text = [i \in 1..NumParallel |-> fetches[rptF[i]].value[1].name]

NamesOutOfOrderWitness ==
    /\ HasLine("allDone")
    /\ Len(settledOrder) = NumParallel + 1
    /\ settledOrder[2] = rptF[NumParallel]
    /\ settledOrder[NumParallel + 1] = rptF[1]

\* C4: if one of the three concurrent fetches rejected, neither the list of
\* names nor the elapsed-time notice is ever written, the failure is reported
\* at most once, and exactly once by the time the event loop is idle again.
ParallelFailsAsAWhole ==
    AnyParallelRejected =>
       /\ ~HasLine("allDone")
       /\ ~HasLine("elapsed")
       /\ CountLines("parErr") <= 1
       /\ Idle => (CountLines("parErr") = 1 /\ rptTask = "done")

ParallelFailWitness ==
    /\ Len(rptF) = NumParallel
    /\ fetches[rptF[2]].state = "rejected"
    /\ fetches[rptF[1]].state = "fulfilled"
    /\ fetches[rptF[3]].state = "fulfilled"
    /\ Len(settledOrder) = NumParallel + 1
    /\ settledOrder[3] = rptF[2]
    /\ CountLines("parErr") = 1
    /\ Idle

\* C5: the elapsed time runParallelTasks reports is less than twice the
\* delay of one fetch.
ElapsedBelowTwoDelays ==
    \A i \in DOMAIN trace : trace[i].kind = "elapsed" => trace[i].num < 2 * DELAY

ElapsedWitness ==
    \E i \in DOMAIN trace : trace[i].kind = "elapsed" /\ trace[i].num = DELAY

\* C6: after k fetches awaited one after the other, at least k delays have
\* passed between the first initiation and the latest completion; three
\* sequential fetches take at least 3 * DELAY.
SequentialTakesThreeDelays ==
    /\ drvEnd - drvStart >= drvK * DELAY
    /\ drvK >= 3 => drvEnd - drvStart >= 3 * DELAY

SequentialWitness == drvK = 3 /\ drvEnd - drvStart = 3 * DELAY

\* C7: runParallelTasks initiates fetches 1, 2, 3 in that order before it
\* suspends: while it is suspended or after it resumed, three fetches exist,
\* when it suspends all three timers are armed, and no timer callback of
\* these fetches runs before the third is initiated.
AllInitiatedBeforeSuspension ==
    /\ \A i \in DOMAIN rptF :
          /\ fetches[rptF[i]].id = i
          /\ i > 1 => rptF[i - 1] < rptF[i]
          /\ fetches[rptF[i]].settles > 0 => Len(rptF) = NumParallel
    /\ rptTask \in {"suspended", "done"} => Len(rptF) = NumParallel
    /\ (rptTask = "suspended" /\ now = startTime) =>
          \A i \in DOMAIN rptF : fetches[rptF[i]].armed

AllArmedWitness ==
    /\ rptTask = "suspended"
    /\ now = startTime
    /\ Len(rptF) = NumParallel
    /\ \A i \in DOMAIN rptF : fetches[rptF[i]].armed

ExpectedTags ==
    << << "seqStart", 0 >>, << "fetchStart", 1 >>, << "seqOk", 0 >>, << "seqEnd", 0 >>,
       << "parStart", 0 >>, << "fetchStart", 1 >>, << "fetchStart", 2 >>,
       << "fetchStart", 3 >>, << "allDone", 0 >>, << "elapsed", 0 >> >>

\* C8: with every fetch fulfilling, the lines written are at every moment a
\* prefix of: sequential start, start of fetch 1, fetch result, sequential
\* end, parallel start, starts of fetches 1, 2, 3, name list, elapsed time;
\* and they are that whole sequence once main has returned.
TraceInOrder ==
    /\ IsPrefix(Tags(trace), ExpectedTags)
    /\ mainP = "fulfilled" => Tags(trace) = ExpectedTags

TraceCompleteWitness == mainP = "fulfilled" /\ Tags(trace) = ExpectedTags

\* C9: a fetch is pending with its timer armed until the timer fires; the
\* timer fires once, and then the fetch is fulfilled or rejected; a pending
\* fetch is eventually settled; a settled fetch never changes again.
FetchSettlesOnce ==
    /\ [](\A f \in DOMAIN fetches :
             /\ fetches[f].state = "pending" =>
                   (fetches[f].armed /\ fetches[f].settles = 0)
             /\ fetches[f].state # "pending" =>
                   (Settled(f) /\ ~fetches[f].armed /\ fetches[f].settles = 1))
    /\ \A f \in 1..(NumParallel + 1) :
          (f \in DOMAIN fetches /\ fetches[f].state = "pending")
             ~> (f \in DOMAIN fetches /\ Settled(f))
    /\ [][\A f \in DOMAIN fetches :
             Settled(f) =>
                /\ fetches'[f].state = fetches[f].state
                /\ fetches'[f].value = fetches[f].value
                /\ fetches'[f].reason = fetches[f].reason
                /\ fetches'[f].armed = FALSE
                /\ fetches'[f].settles = 1]_vars

BothOutcomesWitness ==
    /\ Len(fetches) = NumParallel + 1
    /\ \A f \in DOMAIN fetches : Settled(f)
    /\ \E f, g \in DOMAIN fetches :
          fetches[f].state = "fulfilled" /\ fetches[g].state = "rejected"

\* C10: the end-of-sequential-task marker is written only when the awaited
\* fetch fulfilled; once showUserDetails is done, a fulfilled fetch gave the
\* success line and the end marker, a rejected one the error description
\* and neither of the two.
EndMarkerIffFulfilled ==
    /\ HasLine("seqEnd") => (sudF # 0 /\ fetches[sudF].state = "fulfilled")
    /\ sudTask = "done" =>
          IF fetches[sudF].state = "fulfilled"
          THEN HasLine("seqOk") /\ HasLine("seqEnd") /\ ~HasLine("seqErr")
          ELSE /\ fetches[sudF].state = "rejected"
               /\ ~HasLine("seqOk")
               /\ ~HasLine("seqEnd")
               /\ \E i \in DOMAIN trace :
                     trace[i].kind = "seqErr" /\ trace[i].text = << ErrorMessage >>

SudCaughtWitness ==
    /\ sudTask = "done"
    /\ fetches[sudF].state = "rejected"
    /\ HasLine("seqErr")

====
